---- MODULE Spec2Model ----
(***************************************************************************)
(* The limit order book of src/OrderBook.h and src/OrderBook.cpp.          *)
(*                                                                         *)
(* The state is the OrderBook object ob: its two price-keyed maps of FIFO  *)
(* levels (bid_book, ask_book), its id index (orders_by_id) and the Order  *)
(* objects the shared pointers stored in the levels point to (heap), and   *)
(* the last call with its return value (call).                             *)
(*                                                                         *)
(* Each method is an operator from the book it is called on (b, the        *)
(* method's `this`) and its arguments: a mutating method gives the set of  *)
(* its possible outcomes [ret, ob], the value returned and the book left   *)
(* behind; a const method gives its result.  The actions apply a mutating  *)
(* method to ob with arguments the caller chooses.                         *)
(*                                                                         *)
(* A shared pointer to an Order is named by the id of the Order it points  *)
(* to: every Order is built by add_order under an id the index does not    *)
(* hold and is destroyed when its list node is erased, so live Orders are  *)
(* one per id.  A list iterator is named by the Order its node holds.      *)
(* std::optional<T> is a set with at most one element.                     *)
(***************************************************************************)
EXTENDS Integers, Sequences, FiniteSets, TLC

\* ---------------------------------------------------------------- bounds
\* prices are 1..MaxPrice and quantities 0..MaxQty
MaxPrice == 2
MaxQty == 1

\* the ids, sides and timestamps the caller draws its arguments from
Ids == {"A", "B"}
Sides == {"Bid", "Ask"}
Prices == 1..MaxPrice
Quantities == 0..MaxQty
Times == {0, 1}

nullopt == {}
Some(v) == {v}
has_value(o) == o # {}
value(o) == CHOOSE v \in o : TRUE

OptPrices == {nullopt} \cup {Some(p) : p \in Prices}
OptQuantities == {nullopt} \cup {Some(q) : q \in Quantities}

VARIABLES ob, call

vars == <<ob, call>>

\* ------------------------------------------------------------ containers
\* struct Transaction; TxnType is Add, Amend or Remove
Transaction(type, time) == [type |-> type, time |-> time]

\* Order::Order: creation_time = last_update_time = now, last_txn = {Add, now}
Order(id_, side_, price_, qty_, now) ==
    [id |-> id_, side |-> side_, price |-> price_, quantity |-> qty_,
     creation_time |-> now, last_update_time |-> now,
     last_txn |-> Transaction("Add", now)]

\* an index entry that records the other side
OrderLookup_OtherSide(side, price, list_it) ==
    [side |-> IF side = "Bid" THEN "Ask" ELSE "Bid", price |-> price,
     list_it |-> list_it]

\* struct OrderLookup {side, price, list_it}
OrderLookup(side, price, list_it) ==
    [side |-> side, price |-> price, list_it |-> list_it]

\* a bid comparator that puts the lowest price first
DescPrice_Ascending(a, b) == a < b

\* DescPrice: the bid map's comparator
DescPrice(a, b) == a > b

\* an ask comparator that puts the highest price first
AscePrice_Descending(a, b) == a > b

\* AscePrice / std::less: the ask map's comparator
AscePrice(a, b) == a < b

\* the comparator of a side's map
Before(s, a, b) == IF s = "Bid" THEN DescPrice(a, b) ELSE AscePrice(a, b)

\* the map of a side
BookOf(b, s) == IF s = "Bid" THEN b.bid_book ELSE b.ask_book

\* the book with m as the map of side s
WithBook(b, s, m) ==
    IF s = "Bid" THEN [b EXCEPT !.bid_book = m] ELSE [b EXCEPT !.ask_book = m]

\* std::map::find(k) != end()
MapHas(m, k) == k \in DOMAIN m

\* an emplace that creates every level up to k with it
MapEmplace_UpTo(m, k) ==
    [x \in DOMAIN m \cup 1..k |-> IF x \in DOMAIN m THEN m[x] ELSE <<>>]

\* std::map::emplace(k, PriceLevel(k)): a new empty level unless k is a key
MapEmplace(m, k) ==
    IF k \in DOMAIN m THEN m
    ELSE [x \in DOMAIN m \cup {k} |-> IF x = k THEN <<>> ELSE m[x]]

\* a map that keeps the key it was asked to erase
MapErase_KeepsKey(m, k) == m

\* std::map::erase(it)
MapErase(m, k) == [x \in DOMAIN m \ {k} |-> m[x]]

\* the elements of a list
Range(l) == {l[i] : i \in 1..Len(l)}

\* the list without its i-th node
Unlink(l, i) == [j \in 1..(Len(l) - 1) |-> IF j < i THEN l[j] ELSE l[j + 1]]

\* std::list::erase(it): the possible results.  The node is unlinked when it
\* is a node of this list; erasing another list's iterator is undefined
\* behaviour, modelled as the list left alone or any one node unlinked.
ListErase(l, it) ==
    IF it \in Range(l)
    THEN {Unlink(l, CHOOSE i \in 1..Len(l) : l[i] = it)}
    ELSE {l} \cup {Unlink(l, i) : i \in 1..Len(l)}

\* a push_front in place of the push_back
PushBack_AtFront(l, x) == <<x>> \o l

\* std::list::push_back
PushBack(l, x) == Append(l, x)

\* an index erase that leaves the entry behind
IndexErase_KeepsEntry(ix, id) == ix

\* std::unordered_map::operator[] assignment and erase
IndexPut(ix, id, e) == [x \in DOMAIN ix \cup {id} |-> IF x = id THEN e ELSE ix[x]]
IndexErase(ix, id) == [x \in DOMAIN ix \ {id} |-> ix[x]]

\* make_shared<Order>, a write through a shared pointer, and the last
\* shared pointer to an Order going away
HeapPut(h, p, o) == [x \in DOMAIN h \cup {p} |-> IF x = p THEN o ELSE h[x]]
HeapFree(h, p) == [x \in DOMAIN h \ {p} |-> h[x]]

EmptyMap == [x \in {} |-> <<>>]

\* OrderBook() = default
EmptyBook ==
    [bid_book |-> EmptyMap, ask_book |-> EmptyMap,
     orders_by_id |-> EmptyMap, heap |-> EmptyMap]

\* a call's outcome: the value returned and the book left behind
Outcome(r, b) == [ret |-> r, ob |-> b]

\* ----------------------------------------------------- mutating methods
\* add_order past the uniqueness test: the Order is made, pushed at the back
\* of the level found or created at its price, and indexed
AddNew(b, id, side, price, qty, t) ==
    LET order == Order(id, side, price, qty, t)
        pl_map == MapEmplace(BookOf(b, side), price)
        pushed == [pl_map EXCEPT ![price] = PushBack(@, id)]
    IN Outcome(TRUE,
               [WithBook(b, side, pushed) EXCEPT
                   !.orders_by_id = IndexPut(@, id, OrderLookup(side, price, id)),
                   !.heap = HeapPut(@, id, [order EXCEPT
                                               !.last_txn = Transaction("Add", t)])])

\* an add_order without the uniqueness test
add_order_NoUniqueTest(b, id, side, price, qty, t) ==
    {AddNew(b, id, side, price, qty, t)}

\* OrderBook::add_order
add_order(b, id, side, price, qty, t) ==
    IF id \in DOMAIN b.orders_by_id
    THEN {Outcome(FALSE, b)}
    ELSE {AddNew(b, id, side, price, qty, t)}

\* a detach that leaves the empty level in the map
Detach_KeepsEmptyLevel(pl_map, price, erased) == [pl_map EXCEPT ![price] = erased]

\* a detach that erases the level whether or not orders are left in it
Detach_DropsLevel(pl_map, price, erased) == MapErase(pl_map, price)

\* the map after a node left the level at price: the level holds the list
\* erased, and is erased from the map when that list is empty
Detach(pl_map, price, erased) ==
    LET m == [pl_map EXCEPT ![price] = erased]
    IN IF erased = <<>> THEN MapErase(m, price) ELSE m

\* a remove_order that leaves the index entry and the Order behind
RemoveFound_KeepsIndex(b, id, t) ==
    LET info == b.orders_by_id[id]
        pl_map == BookOf(b, info.side)
    IN {Outcome(TRUE, WithBook(b, info.side, Detach(pl_map, info.price, erased))) :
           erased \in ListErase(pl_map[info.price], info.list_it)}

\* remove_order once the id is found in the index: the lambda exe
RemoveFound(b, id, t) ==
    LET info == b.orders_by_id[id]
        pl_map == BookOf(b, info.side)
    IN IF ~MapHas(pl_map, info.price)
       THEN {Outcome(FALSE, b)}
       ELSE {Outcome(TRUE,
                     [WithBook(b, info.side, Detach(pl_map, info.price, erased)) EXCEPT
                         !.orders_by_id = IndexErase(@, id),
                         !.heap = HeapFree(@, info.list_it)]) :
                erased \in ListErase(pl_map[info.price], info.list_it)}

\* a remove_order that takes the order out of its level and keeps the id taken
remove_order_KeepsId(b, id, t) ==
    IF id \notin DOMAIN b.orders_by_id
    THEN {Outcome(FALSE, b)}
    ELSE RemoveFound_KeepsIndex(b, id, t)

\* a remove_order that reports an unknown id as removed
remove_order_UnknownIsTrue(b, id, t) ==
    IF id \notin DOMAIN b.orders_by_id
    THEN {Outcome(TRUE, b)}
    ELSE RemoveFound(b, id, t)

\* OrderBook::remove_order
remove_order(b, id, t) ==
    IF id \notin DOMAIN b.orders_by_id
    THEN {Outcome(FALSE, b)}
    ELSE RemoveFound(b, id, t)

\* a price-changing amend that drops the new quantity
Repriced_DropsQty(o, new_price, new_qty, t) ==
    [o EXCEPT !.price = value(new_price),
              !.last_update_time = t,
              !.last_txn = Transaction("Amend", t)]

\* a price-changing amend that does not record its transaction
Repriced_KeepsTxn(o, new_price, new_qty, t) ==
    [o EXCEPT !.price = value(new_price),
              !.quantity = IF has_value(new_qty) THEN value(new_qty) ELSE @,
              !.last_update_time = t]

\* a price-changing amend that restamps the order's creation
Repriced_ResetsCreation(o, new_price, new_qty, t) ==
    [o EXCEPT !.price = value(new_price),
              !.quantity = IF has_value(new_qty) THEN value(new_qty) ELSE @,
              !.creation_time = t,
              !.last_update_time = t,
              !.last_txn = Transaction("Amend", t)]

\* a price-changing amend that leaves last_update_time as it was
Repriced_KeepsUpdateTime(o, new_price, new_qty, t) ==
    [o EXCEPT !.price = value(new_price),
              !.quantity = IF has_value(new_qty) THEN value(new_qty) ELSE @,
              !.last_txn = Transaction("Amend", t)]

\* amend_order, price changed: "Update order fields"
Repriced(o, new_price, new_qty, t) ==
    [o EXCEPT !.price = value(new_price),
              !.quantity = IF has_value(new_qty) THEN value(new_qty) ELSE @,
              !.last_update_time = t,
              !.last_txn = Transaction("Amend", t)]

\* amend_order, price changed: the lambda exe.  The node is erased from the
\* old level if that level is found, the Order is updated and pushed at the
\* back of the level found or created at its new price.
AmendPriceChange(b, id, info, new_price, new_qty, t) ==
    LET o_shared == info.list_it
        old_price == info.price
        side == info.side
        pl_map == BookOf(b, side)
        amended == Repriced(b.heap[o_shared], new_price, new_qty, t)
        detached == IF ~MapHas(pl_map, old_price) THEN {pl_map}
                    ELSE {Detach(pl_map, old_price, erased) :
                             erased \in ListErase(pl_map[old_price], info.list_it)}
    IN {Outcome(TRUE,
                [WithBook(b, side,
                          [MapEmplace(d, amended.price) EXCEPT
                              ![amended.price] = PushBack(@, o_shared)]) EXCEPT
                    !.heap = HeapPut(@, o_shared, amended),
                    !.orders_by_id =
                        IndexPut(@, id, OrderLookup(side, amended.price, o_shared))]) :
           d \in detached}

\* a quantity decrease that also sets last_update_time
AmendKeepPriority_TouchesTime(b, id, info, new_qty, t) ==
    LET o_shared == info.list_it
    IN {Outcome(TRUE,
                [b EXCEPT !.heap = HeapPut(@, o_shared,
                             [b.heap[o_shared] EXCEPT
                                 !.quantity = value(new_qty),
                                 !.last_update_time = t,
                                 !.last_txn = Transaction("Amend", t)])])}

\* a quantity decrease that takes an order reduced to 0 out of the book
AmendKeepPriority_RemovesAtZero(b, id, info, new_qty, t) ==
    IF value(new_qty) = 0
    THEN RemoveFound(b, id, t)
    ELSE LET o_shared == info.list_it
         IN {Outcome(TRUE,
                     [b EXCEPT !.heap = HeapPut(@, o_shared,
                                  [b.heap[o_shared] EXCEPT
                                      !.quantity = value(new_qty),
                                      !.last_txn = Transaction("Amend", t)])])}

\* amend_order, price same, quantity reduced: the keep_priority branch
AmendKeepPriority(b, id, info, new_qty, t) ==
    LET o_shared == info.list_it
    IN {Outcome(TRUE,
                [b EXCEPT !.heap = HeapPut(@, o_shared,
                             [b.heap[o_shared] EXCEPT
                                 !.quantity = value(new_qty),
                                 !.last_txn = Transaction("Amend", t)])])}

\* a quantity increase that updates the order where it stands
AmendToBack_InPlace(b, id, info, new_qty, t) ==
    LET o_shared == info.list_it
    IN {Outcome(TRUE,
                [b EXCEPT !.heap = HeapPut(@, o_shared,
                             [b.heap[o_shared] EXCEPT
                                 !.quantity = value(new_qty),
                                 !.last_update_time = t,
                                 !.last_txn = Transaction("Amend", t)])])}

\* a quantity increase that moves the order and keeps its last_update_time
AmendToBack_KeepsTime(b, id, info, new_qty, t) ==
    LET o_shared == info.list_it
        pl_map == BookOf(b, info.side)
    IN {Outcome(TRUE,
                [WithBook(b, info.side,
                          [pl_map EXCEPT ![info.price] = PushBack(erased, o_shared)])
                 EXCEPT
                    !.heap = HeapPut(@, o_shared,
                                [b.heap[o_shared] EXCEPT
                                    !.quantity = value(new_qty),
                                    !.last_txn = Transaction("Amend", t)])]) :
           erased \in ListErase(pl_map[info.price], info.list_it)}

\* amend_order, price same, quantity raised: the lambda exeCp
AmendToBack(b, id, info, new_qty, t) ==
    LET o_shared == info.list_it
        old_price == info.price
        side == info.side
        pl_map == BookOf(b, side)
    IN IF ~MapHas(pl_map, old_price)
       THEN {Outcome(FALSE, b)}
       ELSE {Outcome(TRUE,
                     [WithBook(b, side,
                               [pl_map EXCEPT ![old_price] = PushBack(erased, o_shared)])
                      EXCEPT
                         !.heap = HeapPut(@, o_shared,
                                     [b.heap[o_shared] EXCEPT
                                         !.quantity = value(new_qty),
                                         !.last_update_time = t,
                                         !.last_txn = Transaction("Amend", t)]),
                         !.orders_by_id =
                             IndexPut(@, id, OrderLookup(side, old_price, o_shared))]) :
                erased \in ListErase(pl_map[old_price], info.list_it)}

\* bool price_changed
price_changed(new_price, old_price) ==
    has_value(new_price) /\ value(new_price) # old_price

\* a qty_changed that takes any given quantity for a change
qty_changed_AnyGiven(new_qty, old_qty) == has_value(new_qty)

\* bool qty_changed
qty_changed(new_qty, old_qty) ==
    has_value(new_qty) /\ value(new_qty) # old_qty

\* a keep_priority that never holds
keep_priority_Never(new_price, old_price, new_qty, old_qty) == FALSE

\* bool keep_priority
keep_priority(new_price, old_price, new_qty, old_qty) ==
    /\ ~price_changed(new_price, old_price)
    /\ qty_changed(new_qty, old_qty)
    /\ value(new_qty) < old_qty

\* amend_order once the id is found in the index.  The shared pointer read
\* through list_it is never null: add_order stores the result of make_shared.
AmendFound(b, id, new_price, new_qty, t) ==
    LET info == b.orders_by_id[id]
        o_shared == info.list_it
        old_price == info.price
        old_qty == b.heap[o_shared].quantity
    IN IF price_changed(new_price, old_price)
       THEN AmendPriceChange(b, id, info, new_price, new_qty, t)
       ELSE IF ~qty_changed(new_qty, old_qty)
            THEN {Outcome(FALSE, b)}
            ELSE IF keep_priority(new_price, old_price, new_qty, old_qty)
                 THEN AmendKeepPriority(b, id, info, new_qty, t)
                 ELSE AmendToBack(b, id, info, new_qty, t)

\* an amend_order that reports an unknown id as amended
amend_order_UnknownIsTrue(b, id, new_price, new_qty, t) ==
    IF id \notin DOMAIN b.orders_by_id
    THEN {Outcome(TRUE, b)}
    ELSE AmendFound(b, id, new_price, new_qty, t)

\* OrderBook::amend_order
amend_order(b, id, new_price, new_qty, t) ==
    IF id \notin DOMAIN b.orders_by_id
    THEN {Outcome(FALSE, b)}
    ELSE AmendFound(b, id, new_price, new_qty, t)

\* --------------------------------------------------------- const methods
\* the keys of a std::map in the order its comparator iterates them
RECURSIVE InOrder(_, _)
InOrder(s, keys) ==
    IF keys = {} THEN <<>>
    ELSE LET first == CHOOSE k \in keys : \A x \in keys \ {k} : Before(s, k, x)
         IN <<first>> \o InOrder(s, keys \ {first})

\* OrderBook::top_price: the key at begin() of the side's map
top_price(b, s) ==
    IF DOMAIN BookOf(b, s) = {} THEN nullopt
    ELSE Some(Head(InOrder(s, DOMAIN BookOf(b, s))))

\* OrderBook::bottom_price: the key at rbegin() of the side's map
bottom_price(b, s) ==
    IF DOMAIN BookOf(b, s) = {} THEN nullopt
    ELSE LET keys == InOrder(s, DOMAIN BookOf(b, s)) IN Some(keys[Len(keys)])

\* an is_crossed that does not count equal prices as crossed
is_crossed_Strict(b) ==
    LET top_bid == top_price(b, "Bid")
        top_ask == top_price(b, "Ask")
    IN IF ~has_value(top_bid) \/ ~has_value(top_ask) THEN FALSE
       ELSE value(top_ask) < value(top_bid)

\* OrderBook::is_crossed
is_crossed(b) ==
    LET top_bid == top_price(b, "Bid")
        top_ask == top_price(b, "Ask")
    IN IF ~has_value(top_bid) \/ ~has_value(top_ask) THEN FALSE
       ELSE value(top_ask) <= value(top_bid)

\* OrderBook::num_price_levels
num_price_levels(b, s) == Cardinality(DOMAIN BookOf(b, s))

\* OrderBook::price_levels
price_levels(b, s) == InOrder(s, DOMAIN BookOf(b, s))

\* OrderBook::num_orders_at
num_orders_at(b, s, price) ==
    IF ~MapHas(BookOf(b, s), price) THEN 0 ELSE Len(BookOf(b, s)[price])

\* the sum of a sequence of numbers
RECURSIVE SumSeq(_)
SumSeq(ns) == IF ns = <<>> THEN 0 ELSE Head(ns) + SumSeq(Tail(ns))

\* a num_orders_on_side that counts the levels in place of their orders
num_orders_on_side_CountsLevels(b, s) == Cardinality(DOMAIN BookOf(b, s))

\* OrderBook::num_orders_on_side: the order_count() of every level added up
num_orders_on_side(b, s) ==
    LET ps == InOrder(s, DOMAIN BookOf(b, s))
    IN SumSeq([i \in 1..Len(ps) |-> Len(BookOf(b, s)[ps[i]])])

\* OrderBook::orders_at: the shared pointers of the level, head first
orders_at(b, s, price) ==
    IF ~MapHas(BookOf(b, s), price) THEN <<>> ELSE BookOf(b, s)[price]

\* the concatenation of a sequence of sequences
RECURSIVE Flatten(_)
Flatten(ss) == IF ss = <<>> THEN <<>> ELSE Head(ss) \o Flatten(Tail(ss))

\* an orders_on_side that runs through the levels worst price first
orders_on_side_WorstFirst(b, s) ==
    LET ps == price_levels(b, s)
    IN Flatten([i \in 1..Len(ps) |-> BookOf(b, s)[ps[Len(ps) + 1 - i]]])

\* OrderBook::orders_on_side
orders_on_side(b, s) ==
    LET ps == price_levels(b, s)
    IN Flatten([i \in 1..Len(ps) |-> BookOf(b, s)[ps[i]]])

\* OrderBook::get_order: the shared pointer the index entry's iterator holds
get_order(b, id) ==
    IF id \notin DOMAIN b.orders_by_id THEN nullopt
    ELSE Some(b.orders_by_id[id].list_it)

\* OrderBook::last_transaction
last_transaction(b, id) ==
    LET o == get_order(b, id)
    IN IF has_value(o) THEN Some(b.heap[value(o)].last_txn) ELSE nullopt

\* the vectors that hold each element of S once: the results a scan of the
\* unordered_map can give, whose iteration order is unspecified
RECURSIVE Perms(_)
Perms(S) ==
    IF S = {} THEN {<<>>}
    ELSE UNION {{<<x>> \o rest : rest \in Perms(S \ {x})} : x \in S}

\* the shared pointers the index entries' iterators hold
Indexed(b) == {b.orders_by_id[id].list_it : id \in DOMAIN b.orders_by_id}

\* an orders_created_before that takes the instant t itself
orders_created_before_Inclusive(b, t) ==
    Perms({o \in Indexed(b) : b.heap[o].creation_time <= t})

\* OrderBook::orders_created_before: the possible results
orders_created_before(b, t) ==
    Perms({o \in Indexed(b) : b.heap[o].creation_time < t})

\* OrderBook::orders_created_after: the possible results
orders_created_after(b, t) ==
    Perms({o \in Indexed(b) : b.heap[o].creation_time > t})

\* OrderBook::orders_updated_before: the possible results
orders_updated_before(b, t) ==
    Perms({o \in Indexed(b) : b.heap[o].last_update_time < t})

\* OrderBook::orders_updated_after: the possible results
orders_updated_after(b, t) ==
    Perms({o \in Indexed(b) : b.heap[o].last_update_time > t})

\* ----------------------------------------------------------- the machine
Init ==
    /\ ob = EmptyBook
    /\ call = [op |-> "none", ret |-> FALSE]

\* the call op ends with one of the outcomes
Call(op, outcomes) ==
    \E r \in outcomes :
       /\ ob' = r.ob
       /\ call' = [op |-> op, ret |-> r.ret]

AddOrder ==
    \E id \in Ids, side \in Sides, price \in Prices, qty \in Quantities, t \in Times :
       Call("add", add_order(ob, id, side, price, qty, t))

RemoveOrder ==
    \E id \in Ids, t \in Times : Call("remove", remove_order(ob, id, t))

AmendOrder ==
    \E id \in Ids, new_price \in OptPrices, new_qty \in OptQuantities, t \in Times :
       Call("amend", amend_order(ob, id, new_price, new_qty, t))

Next == AddOrder \/ RemoveOrder \/ AmendOrder

Spec == Init /\ [][Next]_vars

\* ---------------------------------------------------------------- claims
\* the ids the index of a book holds
Active(b) == DOMAIN b.orders_by_id

\* the Order a shared pointer returned by a query of b gives access to
Deref(b, p) == b.heap[p]

\* the order of an active id, as get_order gives access to it
OrderOf(b, id) == Deref(b, value(get_order(b, id)))

\* the ids of the orders of a query result
IdsOf(b, ptrs) == {Deref(b, ptrs[i]).id : i \in 1..Len(ptrs)}

\* the last element of a query result is the order of id
IsLast(b, ptrs, id) == Len(ptrs) > 0 /\ Deref(b, ptrs[Len(ptrs)]).id = id

\* C1: add_order on an id that is already active returns false and changes
\* nothing: the maps of both sides, the index and every order's fields and
\* position are as before, whatever side, price, quantity and time the
\* rejected call names.
C1_DuplicateAddRejected ==
    \A id \in Active(ob), side \in Sides, price \in Prices, qty \in Quantities,
       t \in Times :
       \A r \in add_order(ob, id, side, price, qty, t) :
          r.ret = FALSE /\ r.ob = ob

\* an add was rejected while an order is resting
C1_Witness ==
    /\ call = [op |-> "add", ret |-> FALSE]
    /\ Active(ob) # {}

\* C2: add_order on an inactive id returns true, and afterwards the order is
\* the last element of orders_at(side, price), with the price and quantity
\* given, creation_time = last_update_time = t and last_transaction = (Add, t).
C2_AddAppendsAtTail ==
    \A id \in Ids \ Active(ob), side \in Sides, price \in Prices, qty \in Quantities,
       t \in Times :
       \A r \in add_order(ob, id, side, price, qty, t) :
          /\ r.ret = TRUE
          /\ has_value(get_order(r.ob, id))
          /\ IsLast(r.ob, orders_at(r.ob, side, price), id)
          /\ orders_at(r.ob, side, price) =
                orders_at(ob, side, price) \o <<value(get_order(r.ob, id))>>
          /\ OrderOf(r.ob, id) =
                [id |-> id, side |-> side, price |-> price, quantity |-> qty,
                 creation_time |-> t, last_update_time |-> t,
                 last_txn |-> Transaction("Add", t)]
          /\ last_transaction(r.ob, id) = Some(Transaction("Add", t))

\* an add succeeded into a level that already held an order
C2_Witness ==
    /\ call = [op |-> "add", ret |-> TRUE]
    /\ \E s \in Sides, p \in Prices :
          /\ num_orders_at(ob, s, p) = 2
          /\ Deref(ob, orders_at(ob, s, p)[2]).last_txn.type = "Add"

\* C3: remove_order on an id that is not active returns false and leaves the
\* maps of both sides, the index and every order unchanged.
C3_RemoveUnknownRejected ==
    \A id \in Ids \ Active(ob), t \in Times :
       \A r \in remove_order(ob, id, t) :
          r.ret = FALSE /\ r.ob = ob

\* a remove was rejected while an order is resting
C3_Witness ==
    /\ call = [op |-> "remove", ret |-> FALSE]
    /\ Active(ob) # {}

\* get_order(id) and last_transaction(id) are empty and no orders_at or
\* orders_on_side result of either side holds an order of that id
Gone(b, id) ==
    /\ get_order(b, id) = nullopt
    /\ last_transaction(b, id) = nullopt
    /\ \A s \in Sides :
          /\ id \notin IdsOf(b, orders_on_side(b, s))
          /\ \A p \in Prices : id \notin IdsOf(b, orders_at(b, s, p))

\* the outcomes of every call on b that is not an add_order of id
CallsButAddOf(b, id) ==
    UNION ( {add_order(b, other, side, price, qty, t) :
                other \in Ids \ {id}, side \in Sides, price \in Prices,
                qty \in Quantities, t \in Times}
            \cup {remove_order(b, any, t) : any \in Ids, t \in Times}
            \cup {amend_order(b, any, new_price, new_qty, t) :
                     any \in Ids, new_price \in OptPrices,
                     new_qty \in OptQuantities, t \in Times} )

\* C4: after a successful remove_order(id), get_order(id) and
\* last_transaction(id) are empty and id is in no orders_at / orders_on_side
\* result of either side, and every call that is not an add_order of that id
\* leaves it so.
C4_RemovedIsGone ==
    \A id \in Ids :
       /\ \A t \in Times : \A r \in remove_order(ob, id, t) :
             r.ret = TRUE => Gone(r.ob, id)
       /\ Gone(ob, id) => \A r \in CallsButAddOf(ob, id) : Gone(r.ob, id)

\* an order was removed while another one rests in the book
C4_Witness ==
    /\ call = [op |-> "remove", ret |-> TRUE]
    /\ Active(ob) # {}
    /\ \E id \in Ids \ Active(ob) : Gone(ob, id)

\* C5: amend_order on an id that is not active returns false and mutates
\* nothing, whatever new_price and new_quantity are given.
C5_AmendUnknownRejected ==
    \A id \in Ids \ Active(ob), new_price \in OptPrices, new_qty \in OptQuantities,
       t \in Times :
       \A r \in amend_order(ob, id, new_price, new_qty, t) :
          r.ret = FALSE /\ r.ob = ob

\* an amend was rejected on a book with no active id
C5_Witness ==
    /\ call = [op |-> "amend", ret |-> FALSE]
    /\ Active(ob) = {}

\* new_price is absent or the price of the active id
SamePrice(b, id, new_price) ==
    new_price = nullopt \/ value(new_price) = OrderOf(b, id).price

\* C6: amend_order on an active id with no effective change (new_price absent
\* or the current price, and new_quantity absent or the current quantity)
\* returns false and leaves the state unchanged: position, last_update_time
\* and last_transaction included.
C6_NoOpAmendRejected ==
    \A id \in Active(ob), new_price \in OptPrices, new_qty \in OptQuantities,
       t \in Times :
       (/\ SamePrice(ob, id, new_price)
        /\ new_qty = nullopt \/ value(new_qty) = OrderOf(ob, id).quantity)
          => \A r \in amend_order(ob, id, new_price, new_qty, t) :
                r.ret = FALSE /\ r.ob = ob

\* an amend was rejected while every id is active
C6_Witness ==
    /\ call = [op |-> "amend", ret |-> FALSE]
    /\ Active(ob) = Ids

\* C7: amend_order on an active id with a new_price other than the current
\* price returns true, whatever new_quantity is: the order leaves its old
\* level and is the last element of the level at new_price on the same side,
\* its price is new_price, its quantity is new_quantity if given and is
\* unchanged otherwise, last_update_time = t and last_transaction = (Amend, t).
C7_PriceChangeMovesToTail ==
    \A id \in Active(ob), new_price \in OptPrices, new_qty \in OptQuantities,
       t \in Times :
       (has_value(new_price) /\ value(new_price) # OrderOf(ob, id).price)
          => \A r \in amend_order(ob, id, new_price, new_qty, t) :
                LET old == OrderOf(ob, id)
                IN /\ r.ret = TRUE
                   /\ has_value(get_order(r.ob, id))
                   /\ id \notin IdsOf(r.ob, orders_at(r.ob, old.side, old.price))
                   /\ IsLast(r.ob, orders_at(r.ob, old.side, value(new_price)), id)
                   /\ \A s \in Sides \ {old.side} :
                         id \notin IdsOf(r.ob, orders_on_side(r.ob, s))
                   /\ OrderOf(r.ob, id).side = old.side
                   /\ OrderOf(r.ob, id).price = value(new_price)
                   /\ OrderOf(r.ob, id).quantity =
                         (IF has_value(new_qty) THEN value(new_qty) ELSE old.quantity)
                   /\ OrderOf(r.ob, id).last_update_time = t
                   /\ last_transaction(r.ob, id) = Some(Transaction("Amend", t))

\* an amend succeeded and left an amended order of quantity 0, updated at the
\* time of its last transaction, behind an order that was never amended
C7_Witness ==
    /\ call = [op |-> "amend", ret |-> TRUE]
    /\ \E s \in Sides, p \in Prices :
          /\ num_orders_at(ob, s, p) = 2
          /\ Deref(ob, orders_at(ob, s, p)[1]).last_txn.type = "Add"
          /\ LET o == Deref(ob, orders_at(ob, s, p)[2])
             IN /\ o.last_txn.type = "Amend"
                /\ o.last_txn.time = o.last_update_time
                /\ o.quantity = 0

\* a query result without the pointers to the order of id
Without(b, ptrs, id) == SelectSeq(ptrs, LAMBDA x : Deref(b, x).id # id)

\* C8: amend_order with the price unchanged (new_price absent or the current
\* price) and new_quantity greater than the current quantity returns true,
\* sets the quantity, last_update_time = t and last_transaction = (Amend, t),
\* and moves the order to the tail of its own level, behind every order that
\* was in that level.
C8_QtyIncreaseMovesToTail ==
    \A id \in Active(ob), new_price \in OptPrices, new_qty \in OptQuantities,
       t \in Times :
       (/\ SamePrice(ob, id, new_price)
        /\ has_value(new_qty) /\ value(new_qty) > OrderOf(ob, id).quantity)
          => \A r \in amend_order(ob, id, new_price, new_qty, t) :
                LET old == OrderOf(ob, id)
                IN /\ r.ret = TRUE
                   /\ has_value(get_order(r.ob, id))
                   /\ OrderOf(r.ob, id).quantity = value(new_qty)
                   /\ OrderOf(r.ob, id).price = old.price
                   /\ OrderOf(r.ob, id).last_update_time = t
                   /\ last_transaction(r.ob, id) = Some(Transaction("Amend", t))
                   /\ orders_at(r.ob, old.side, old.price) =
                         Without(ob, orders_at(ob, old.side, old.price), id)
                            \o <<value(get_order(r.ob, id))>>

\* an amend succeeded and left an amended order of the largest quantity,
\* updated at the time of its last transaction, behind an order that was
\* created later and never amended
C8_Witness ==
    /\ call = [op |-> "amend", ret |-> TRUE]
    /\ \E s \in Sides, p \in Prices :
          /\ num_orders_at(ob, s, p) = 2
          /\ Deref(ob, orders_at(ob, s, p)[1]).last_txn.type = "Add"
          /\ LET o == Deref(ob, orders_at(ob, s, p)[2])
             IN /\ o.last_txn.type = "Amend"
                /\ o.last_txn.time = o.last_update_time
                /\ o.quantity = MaxQty
                /\ o.creation_time < Deref(ob, orders_at(ob, s, p)[1]).creation_time

\* C9: amend_order with the price unchanged (new_price absent or the current
\* price) and new_quantity smaller than the current quantity returns true and
\* changes only the order's quantity and last_transaction (= (Amend, t)): its
\* last_update_time, its position in its level and all the rest are as before.
C9_QtyDecreaseKeepsPriority ==
    \A id \in Active(ob), new_price \in OptPrices, new_qty \in OptQuantities,
       t \in Times :
       (/\ SamePrice(ob, id, new_price)
        /\ has_value(new_qty) /\ value(new_qty) < OrderOf(ob, id).quantity)
          => \A r \in amend_order(ob, id, new_price, new_qty, t) :
                /\ r.ret = TRUE
                /\ has_value(get_order(r.ob, id))
                /\ OrderOf(r.ob, id) =
                      [OrderOf(ob, id) EXCEPT !.quantity = value(new_qty),
                                              !.last_txn = Transaction("Amend", t)]
                /\ \A s \in Sides :
                      /\ price_levels(r.ob, s) = price_levels(ob, s)
                      /\ \A p \in Prices : orders_at(r.ob, s, p) = orders_at(ob, s, p)
                /\ \A other \in Ids \ {id} :
                      /\ get_order(r.ob, other) = get_order(ob, other)
                      /\ other \in Active(ob)
                            => OrderOf(r.ob, other) = OrderOf(ob, other)

\* an amend succeeded and left, ahead of an order that was never amended, an
\* order whose last transaction is an amend at another time than its last
\* update
C9_Witness ==
    /\ call = [op |-> "amend", ret |-> TRUE]
    /\ \E s \in Sides, p \in Prices :
          /\ num_orders_at(ob, s, p) = 2
          /\ Deref(ob, orders_at(ob, s, p)[2]).last_txn.type = "Add"
          /\ LET o == Deref(ob, orders_at(ob, s, p)[1])
             IN /\ o.last_txn.type = "Amend"
                /\ o.last_txn.time # o.last_update_time

\* the prices of the active orders of a side
ActivePrices(b, s) ==
    {OrderOf(b, id).price : id \in {x \in Active(b) : OrderOf(b, x).side = s}}

\* C10: no price level is empty: every price of price_levels(side) has at
\* least one active order, and num_price_levels(side) is the number of
\* distinct prices of the active orders of that side.
C10_NoEmptyLevel ==
    \A s \in Sides :
       /\ \A i \in 1..Len(price_levels(ob, s)) :
             /\ num_orders_at(ob, s, price_levels(ob, s)[i]) >= 1
             /\ price_levels(ob, s)[i] \in ActivePrices(ob, s)
       /\ num_price_levels(ob, s) = Cardinality(ActivePrices(ob, s))

\* the last order of the book was removed, and no side has a level left
C10_Witness ==
    /\ call = [op |-> "remove", ret |-> TRUE]
    /\ Active(ob) = {}
    /\ \A s \in Sides : num_price_levels(ob, s) = 0 /\ price_levels(ob, s) = <<>>

\* the number of pointers to the order of id in a query result
Count(b, ptrs, id) == Cardinality({i \in 1..Len(ptrs) : Deref(b, ptrs[i]).id = id})

\* C11: in every reachable state, for every active id, the index entry's
\* (side, price) are the side and price of the order get_order(id) returns,
\* the order is in the level at that side and price, and the id occurs exactly
\* once in orders_on_side(side) and not at all on the other side.
C11_IndexMatchesLocation ==
    \A id \in Active(ob) :
       LET info == ob.orders_by_id[id]
           o == OrderOf(ob, id)
       IN /\ info.side = o.side
          /\ info.price = o.price
          /\ o.id = id
          /\ Count(ob, orders_at(ob, o.side, o.price), id) = 1
          /\ \A p \in Prices \ {o.price} : id \notin IdsOf(ob, orders_at(ob, o.side, p))
          /\ Count(ob, orders_on_side(ob, o.side), id) = 1
          /\ \A s \in Sides \ {o.side} : Count(ob, orders_on_side(ob, s), id) = 0

\* an amend succeeded and left two orders at two prices of one side, the
\* amended one at the better price
C11_Witness ==
    /\ call = [op |-> "amend", ret |-> TRUE]
    /\ \E s \in Sides :
          /\ Len(orders_on_side(ob, s)) = 2
          /\ num_price_levels(ob, s) = 2
          /\ LET o == Deref(ob, orders_on_side(ob, s)[1])
             IN o.last_txn.type = "Amend" /\ o.last_txn.time = o.last_update_time

\* C12: after any sequence of add, remove and amend calls with the timestamps
\* the caller gives, for every side and price orders_at(side, price) is sorted
\* by ascending last_update_time.
C12_LevelSortedByUpdateTime ==
    \A s \in Sides, p \in Prices :
       LET level == orders_at(ob, s, p)
       IN \A i, j \in 1..Len(level) :
             i < j => Deref(ob, level[i]).last_update_time
                         <= Deref(ob, level[j]).last_update_time

\* the shared pointers the queries of a book hand to the caller: those of
\* get_order and of orders_at / orders_on_side of both sides (the
\* orders_created_* and orders_updated_* results hold pointers of the same
\* index entries)
QueryResults(b) ==
    UNION {get_order(b, id) : id \in Ids}
       \cup UNION {Range(orders_on_side(b, s)) : s \in Sides}
       \cup UNION {Range(orders_at(b, s, p)) : s \in Sides, p \in Prices}

\* the Order a caller sees through a pointer p it was handed by a query of
\* the book `before`, once the book is `after`: the Order the book still
\* holds, or, once removed, the Order as it was (the caller's pointer keeps it
\* alive and remove_order writes none of its fields)
SeenThrough(before, after, p) ==
    IF p \in DOMAIN after.heap THEN after.heap[p] ELSE before.heap[p]

\* the outcomes of every amend_order and remove_order call on a book
AmendOrRemoveCalls(b) ==
    UNION ( {remove_order(b, id, t) : id \in Ids, t \in Times}
            \cup {amend_order(b, id, new_price, new_qty, t) :
                     id \in Ids, new_price \in OptPrices,
                     new_qty \in OptQuantities, t \in Times} )

\* C13: a result returned by a query is an independent snapshot: a later
\* amend_order or remove_order does not change the price, quantity,
\* last_update_time or last_transaction seen through the result returned
\* before.
C13_QueryResultIsSnapshot ==
    \A p \in QueryResults(ob) :
       \A r \in AmendOrRemoveCalls(ob) :
          LET seen == Deref(ob, p)
              later == SeenThrough(ob, r.ob, p)
          IN /\ later.price = seen.price
             /\ later.quantity = seen.quantity
             /\ later.last_update_time = seen.last_update_time
             /\ later.last_txn = seen.last_txn

\* the greatest and the least element of a non-empty set of prices
MaxOf(S) == CHOOSE x \in S : \A y \in S : y <= x
MinOf(S) == CHOOSE x \in S : \A y \in S : x <= y

\* C14: in every reachable state, top_price(Bid) is the maximum and
\* bottom_price(Bid) the minimum price among active bids, top_price(Ask) is the
\* minimum and bottom_price(Ask) the maximum price among active asks, and each
\* is empty exactly when that side has no active order.
C14_TopAndBottomPrice ==
    \A s \in Sides :
       LET P == ActivePrices(ob, s)
       IN IF P = {}
          THEN top_price(ob, s) = nullopt /\ bottom_price(ob, s) = nullopt
          ELSE /\ top_price(ob, s) = Some(IF s = "Bid" THEN MaxOf(P) ELSE MinOf(P))
               /\ bottom_price(ob, s) = Some(IF s = "Bid" THEN MinOf(P) ELSE MaxOf(P))

\* bids rest at two prices while no ask is active
C14_Witness ==
    /\ top_price(ob, "Bid") = Some(MaxPrice)
    /\ bottom_price(ob, "Bid") = Some(1)
    /\ top_price(ob, "Ask") = nullopt
    /\ bottom_price(ob, "Ask") = nullopt

\* C15: is_crossed() is true if and only if both sides have at least one
\* active order and top_price(Ask) <= top_price(Bid), equality included; it is
\* false whenever either side is empty.
C15_IsCrossed ==
    is_crossed(ob) =
       (/\ ActivePrices(ob, "Bid") # {}
        /\ ActivePrices(ob, "Ask") # {}
        /\ MinOf(ActivePrices(ob, "Ask")) = value(top_price(ob, "Ask"))
        /\ MaxOf(ActivePrices(ob, "Bid")) = value(top_price(ob, "Bid"))
        /\ value(top_price(ob, "Ask")) <= value(top_price(ob, "Bid")))

\* the book is crossed with the best ask at the price of the best bid
C15_Witness ==
    /\ is_crossed(ob)
    /\ top_price(ob, "Ask") # nullopt
    /\ top_price(ob, "Ask") = top_price(ob, "Bid")

\* C16: price_levels(Bid) is strictly descending and price_levels(Ask)
\* strictly ascending in every reachable state, and each active price of the
\* side appears in it exactly once.
C16_PriceLevelsBestFirst ==
    \A s \in Sides :
       LET pl == price_levels(ob, s)
       IN /\ \A i, j \in 1..Len(pl) :
                i < j => IF s = "Bid" THEN pl[i] > pl[j] ELSE pl[i] < pl[j]
          /\ Range(pl) = ActivePrices(ob, s)
          /\ Len(pl) = Cardinality(ActivePrices(ob, s))

\* asks rest at two prices, the order at the better price created later
C16_Witness ==
    /\ price_levels(ob, "Ask") = <<1, MaxPrice>>
    /\ Deref(ob, orders_at(ob, "Ask", 1)[1]).creation_time
          > Deref(ob, orders_at(ob, "Ask", MaxPrice)[1]).creation_time

\* C17: orders_on_side(side) is the concatenation of orders_at(side, p) for p
\* running through price_levels(side) in order: every order at a better price
\* precedes every order at a worse price, and orders of one price keep their
\* level order.
C17_OrdersOnSideByPriceThenLevel ==
    \A s \in Sides :
       LET pl == price_levels(ob, s)
           all == orders_on_side(ob, s)
       IN /\ all = Flatten([i \in 1..Len(pl) |-> orders_at(ob, s, pl[i])])
          /\ \A i, j \in 1..Len(all) :
                i < j => \/ Deref(ob, all[i]).price = Deref(ob, all[j]).price
                         \/ Before(s, Deref(ob, all[i]).price, Deref(ob, all[j]).price)

\* a side holds two orders at two prices, the one at the better price updated
\* later than the one at the worse price
C17_Witness ==
    \E s \in Sides :
       LET all == orders_on_side(ob, s)
       IN /\ Len(all) = 2
          /\ num_price_levels(ob, s) = 2
          /\ Deref(ob, all[1]).last_update_time > Deref(ob, all[2]).last_update_time

\* every possible result in rs holds exactly the orders of the ids in want,
\* each once
Selects(b, rs, want) ==
    \A res \in rs : IdsOf(b, res) = want /\ Len(res) = Cardinality(want)

\* C18: for every state and every instant t, orders_created_before(t) is
\* exactly the set of active orders of both sides with creation_time < t and
\* orders_created_after(t) exactly those with creation_time > t: an active
\* order with creation_time = t is in neither, and so is a removed order.
C18_CreatedBeforeAfter ==
    \A t \in Times :
       /\ Selects(ob, orders_created_before(ob, t),
                  {id \in Active(ob) : OrderOf(ob, id).creation_time < t})
       /\ Selects(ob, orders_created_after(ob, t),
                  {id \in Active(ob) : OrderOf(ob, id).creation_time > t})
       /\ \A id \in Ids :
             (id \notin Active(ob) \/ OrderOf(ob, id).creation_time = t)
                => /\ \A res \in orders_created_before(ob, t) : id \notin IdsOf(ob, res)
                   /\ \A res \in orders_created_after(ob, t) : id \notin IdsOf(ob, res)

\* after a remove, one order is active, created at an instant that is after
\* one of the instants and is neither before nor after itself
C18_Witness ==
    /\ call = [op |-> "remove", ret |-> TRUE]
    /\ \E id \in Active(ob), t \in Times :
          /\ Active(ob) = {id}
          /\ \E res \in orders_created_after(ob, t) : Len(res) = 1
          /\ orders_created_before(ob, OrderOf(ob, id).creation_time) = {<<>>}
          /\ orders_created_after(ob, OrderOf(ob, id).creation_time) = {<<>>}

\* the ids of the orders orders_updated_before(t) / orders_updated_after(t)
\* select
UpdatedBefore(b, t) == UNION {IdsOf(b, res) : res \in orders_updated_before(b, t)}
UpdatedAfter(b, t) == UNION {IdsOf(b, res) : res \in orders_updated_after(b, t)}

\* C19: orders_updated_before(t) / orders_updated_after(t) are exactly the
\* active orders with last_update_time < t / > t; after a successful
\* price-changing or quantity-increasing amend at t1 the order is selected
\* according to t1, and after a quantity-decrease amend its membership in
\* these results is as before.
C19_UpdatedBeforeAfter ==
    /\ \A t \in Times :
          /\ Selects(ob, orders_updated_before(ob, t),
                     {id \in Active(ob) : OrderOf(ob, id).last_update_time < t})
          /\ Selects(ob, orders_updated_after(ob, t),
                     {id \in Active(ob) : OrderOf(ob, id).last_update_time > t})
    /\ \A id \in Active(ob), new_price \in OptPrices, new_qty \in OptQuantities,
          t1 \in Times :
          \A r \in amend_order(ob, id, new_price, new_qty, t1) :
             r.ret = TRUE =>
                \A t \in Times :
                   IF /\ SamePrice(ob, id, new_price)
                      /\ has_value(new_qty)
                      /\ value(new_qty) < OrderOf(ob, id).quantity
                   THEN /\ id \in UpdatedBefore(r.ob, t) <=> id \in UpdatedBefore(ob, t)
                        /\ id \in UpdatedAfter(r.ob, t) <=> id \in UpdatedAfter(ob, t)
                   ELSE /\ id \in UpdatedBefore(r.ob, t) <=> t1 < t
                        /\ id \in UpdatedAfter(r.ob, t) <=> t1 > t

\* an amend succeeded and an order created at one instant is selected as
\* updated after it
C19_Witness ==
    /\ call = [op |-> "amend", ret |-> TRUE]
    /\ \E id \in Active(ob) :
          /\ OrderOf(ob, id).last_txn.type = "Amend"
          /\ id \in UpdatedAfter(ob, OrderOf(ob, id).creation_time)

\* the outcomes of every call on b but an amend_order or a remove_order of id
CallsButAmendOrRemoveOf(b, id) ==
    UNION ( {add_order(b, any, side, price, qty, t) :
                any \in Ids, side \in Sides, price \in Prices,
                qty \in Quantities, t \in Times}
            \cup {remove_order(b, other, t) : other \in Ids \ {id}, t \in Times}
            \cup {amend_order(b, other, new_price, new_qty, t) :
                     other \in Ids \ {id}, new_price \in OptPrices,
                     new_qty \in OptQuantities, t \in Times} )

\* C20: for every active id, last_transaction(id) is (Add, t_add) if no amend
\* succeeded on it since it was added, and otherwise (Amend, t) of the most
\* recent successful amend, of any of the three kinds; failed calls never
\* change it, and its kind is never Remove.  Stated step by step: an add
\* leaves (Add, t), a successful amend of the id leaves (Amend, t), a failed
\* amend of the id and every call that is not an amend or remove of the id
\* leave it as it was, and in every state the kind is Add or Amend, an Add
\* carrying the order's creation_time.
C20_LastTransaction ==
    /\ \A id \in Ids \ Active(ob), side \in Sides, price \in Prices,
          qty \in Quantities, t \in Times :
          \A r \in add_order(ob, id, side, price, qty, t) :
             last_transaction(r.ob, id) = Some(Transaction("Add", t))
    /\ \A id \in Active(ob) :
          /\ has_value(last_transaction(ob, id))
          /\ value(last_transaction(ob, id)).type \in {"Add", "Amend"}
          /\ value(last_transaction(ob, id)).type = "Add"
                => value(last_transaction(ob, id)).time = OrderOf(ob, id).creation_time
          /\ \A new_price \in OptPrices, new_qty \in OptQuantities, t \in Times :
                \A r \in amend_order(ob, id, new_price, new_qty, t) :
                   last_transaction(r.ob, id) =
                      (IF r.ret THEN Some(Transaction("Amend", t))
                       ELSE last_transaction(ob, id))
          /\ \A r \in CallsButAmendOrRemoveOf(ob, id) :
                last_transaction(r.ob, id) = last_transaction(ob, id)

\* an amend succeeded and an order's last transaction is an amend at an
\* earlier instant than its last update
C20_Witness ==
    /\ call = [op |-> "amend", ret |-> TRUE]
    /\ \E id \in Active(ob) :
          /\ value(last_transaction(ob, id)).type = "Amend"
          /\ value(last_transaction(ob, id)).time < OrderOf(ob, id).last_update_time

\* C21: in every reachable state num_orders_at(side, p) is the length of
\* orders_at(side, p), 0 for an inactive price; num_orders_on_side(side) is the
\* sum of num_orders_at over price_levels(side); and num_orders_on_side(Bid) +
\* num_orders_on_side(Ask) is the number of active ids.
C21_OrderCounts ==
    /\ \A s \in Sides, p \in Prices :
          /\ num_orders_at(ob, s, p) = Len(orders_at(ob, s, p))
          /\ p \notin ActivePrices(ob, s) => num_orders_at(ob, s, p) = 0
    /\ \A s \in Sides :
          LET pl == price_levels(ob, s)
          IN num_orders_on_side(ob, s) =
                SumSeq([i \in 1..Len(pl) |-> num_orders_at(ob, s, pl[i])])
    /\ num_orders_on_side(ob, "Bid") + num_orders_on_side(ob, "Ask")
          = Cardinality(Active(ob))

\* one side holds two orders in one level and the other side none
C21_Witness ==
    \E s \in Sides, p \in Prices :
       /\ num_orders_at(ob, s, p) = 2
       /\ num_orders_on_side(ob, s) = 2
       /\ num_price_levels(ob, s) = 1
       /\ \A other \in Sides \ {s} : num_orders_on_side(ob, other) = 0

\* C22: no amend_order, successful or failed, changes an active order's
\* creation_time or side; the order stays on the side it was added to for its
\* whole active life and its creation_time stays the timestamp of its
\* add_order: no call but its remove_order changes either.
C22_SideAndCreationTimeFixed ==
    \A id \in Active(ob) :
       /\ \A new_price \in OptPrices, new_qty \in OptQuantities, t \in Times :
             \A r \in amend_order(ob, id, new_price, new_qty, t) :
                /\ has_value(get_order(r.ob, id))
                /\ OrderOf(r.ob, id).creation_time = OrderOf(ob, id).creation_time
                /\ OrderOf(r.ob, id).side = OrderOf(ob, id).side
                /\ id \in IdsOf(r.ob, orders_on_side(r.ob, OrderOf(ob, id).side))
       /\ \A r \in CallsButAmendOrRemoveOf(ob, id) :
             /\ has_value(get_order(r.ob, id))
             /\ OrderOf(r.ob, id).creation_time = OrderOf(ob, id).creation_time
             /\ OrderOf(r.ob, id).side = OrderOf(ob, id).side

\* an amend succeeded and an amended order was last updated at an earlier
\* instant than it was created
C22_Witness ==
    /\ call = [op |-> "amend", ret |-> TRUE]
    /\ \E id \in Active(ob) :
          /\ OrderOf(ob, id).last_txn.type = "Amend"
          /\ OrderOf(ob, id).last_update_time < OrderOf(ob, id).creation_time

\* the amend is a quantity decrease at the same price
IsDecrease(b, id, new_price, new_qty) ==
    /\ SamePrice(b, id, new_price)
    /\ has_value(new_qty)
    /\ value(new_qty) < OrderOf(b, id).quantity

\* C23: the last_update_time of an active order is the timestamp given to its
\* add_order or to its most recent successful price-changing or
\* quantity-increasing amend, whichever came last.  Stated step by step: an
\* add leaves last_update_time = t, a successful amend that is not a quantity
\* decrease leaves last_update_time = t, and quantity decreases, failed calls
\* and calls on other ids leave it as it was.
C23_LastUpdateTime ==
    /\ \A id \in Ids \ Active(ob), side \in Sides, price \in Prices,
          qty \in Quantities, t \in Times :
          \A r \in add_order(ob, id, side, price, qty, t) :
             OrderOf(r.ob, id).last_update_time = t
    /\ \A id \in Active(ob) :
          /\ \A new_price \in OptPrices, new_qty \in OptQuantities, t \in Times :
                \A r \in amend_order(ob, id, new_price, new_qty, t) :
                   OrderOf(r.ob, id).last_update_time =
                      (IF r.ret /\ ~IsDecrease(ob, id, new_price, new_qty)
                       THEN t
                       ELSE OrderOf(ob, id).last_update_time)
          /\ \A r \in CallsButAmendOrRemoveOf(ob, id) :
                OrderOf(r.ob, id).last_update_time = OrderOf(ob, id).last_update_time

\* an amend succeeded and an order's last update is neither its creation nor
\* its last transaction
C23_Witness ==
    /\ call = [op |-> "amend", ret |-> TRUE]
    /\ \E id \in Active(ob) :
          /\ OrderOf(ob, id).last_update_time # OrderOf(ob, id).creation_time
          /\ OrderOf(ob, id).last_update_time # OrderOf(ob, id).last_txn.time

\* ------------------------------------------------- a book of three orders
\* the ids and the timestamp of the callers of the three-order book
Ids3 == Ids \cup {"C"}
Times3 == {0}

AddOrder3 ==
    \E id \in Ids3, side \in Sides, price \in Prices, qty \in Quantities, t \in Times3 :
       Call("add", add_order(ob, id, side, price, qty, t))

RemoveOrder3 ==
    \E id \in Ids3, t \in Times3 : Call("remove", remove_order(ob, id, t))

AmendOrder3 ==
    \E id \in Ids3, new_price \in OptPrices, new_qty \in OptQuantities, t \in Times3 :
       Call("amend", amend_order(ob, id, new_price, new_qty, t))

Next3 == AddOrder3 \/ RemoveOrder3 \/ AmendOrder3

Spec3 == Init /\ [][Next3]_vars

\* the outcomes of every add_order, remove_order and amend_order call on id
CallsOn(b, id) ==
    UNION ( {add_order(b, id, side, price, qty, t) :
                side \in Sides, price \in Prices, qty \in Quantities, t \in Times}
            \cup {remove_order(b, id, t) : t \in Times}
            \cup {amend_order(b, id, new_price, new_qty, t) :
                     new_price \in OptPrices, new_qty \in OptQuantities,
                     t \in Times} )

\* C24: a successful add_order, remove_order or amend_order on id X leaves
\* every other active order untouched: it stays active with the same price,
\* quantity, timestamps and last_transaction, and in every price level the
\* other orders are the same and in the same relative order after the call as
\* before, crossed books included.
C24_OtherOrdersUntouched ==
    \A X \in Ids3 :
       \A r \in CallsOn(ob, X) :
          r.ret = TRUE =>
             /\ Active(r.ob) \ {X} = Active(ob) \ {X}
             /\ \A other \in Active(ob) \ {X} :
                   OrderOf(r.ob, other) = OrderOf(ob, other)
             /\ \A s \in Sides, p \in Prices :
                   Without(r.ob, orders_at(r.ob, s, p), X)
                      = Without(ob, orders_at(ob, s, p), X)

\* three orders are active, two of them in one level, and the book is crossed
\* after a successful amend
C24_Witness ==
    /\ call = [op |-> "amend", ret |-> TRUE]
    /\ Active(ob) = Ids3
    /\ is_crossed(ob)
    /\ \E s \in Sides, p \in Prices : num_orders_at(ob, s, p) = 2

\* the (side, price) levels of a book
Levels(b) == UNION {{<<s, p>> : p \in DOMAIN BookOf(b, s)} : s \in Sides}

\* the levels a call created and the levels it deleted
Created(before, after) == Levels(after) \ Levels(before)
Deleted(before, after) == Levels(before) \ Levels(after)

\* the outcomes of every mutating call on a book
AllCalls(b) == UNION {CallsOn(b, id) : id \in Ids}

\* C25 as stated: every mutating call performs at most one price level
\* creation or deletion: the set of active (side, price) levels after the
\* call differs from the set before it by at most one level.
C25_AtMostOneLevelChanged ==
    \A r \in AllCalls(ob) :
       Cardinality(Created(ob, r.ob) \cup Deleted(ob, r.ob)) <= 1

\* C25, amended: every mutating call performs at most one price level
\* creation and at most one deletion.  add_order creates at most the level at
\* its price and deletes none; remove_order deletes at most the order's level
\* and creates none; an amend_order that does not change the price changes no
\* level; a price-changing amend_order deletes at most the order's old level
\* and creates at most the level at the new price on the same side, so that
\* the set of levels can differ by two.
C25_AtMostOneCreationAndOneDeletion ==
    \A id \in Ids, t \in Times :
       /\ \A side \in Sides, price \in Prices, qty \in Quantities :
             \A r \in add_order(ob, id, side, price, qty, t) :
                /\ Created(ob, r.ob) \subseteq {<<side, price>>}
                /\ Deleted(ob, r.ob) = {}
       /\ \A r \in remove_order(ob, id, t) :
             /\ Created(ob, r.ob) = {}
             /\ Deleted(ob, r.ob) = {} \/ id \in Active(ob)
             /\ id \in Active(ob) =>
                   Deleted(ob, r.ob)
                      \subseteq {<<OrderOf(ob, id).side, OrderOf(ob, id).price>>}
       /\ \A new_price \in OptPrices, new_qty \in OptQuantities :
             \A r \in amend_order(ob, id, new_price, new_qty, t) :
                IF id \notin Active(ob) \/ SamePrice(ob, id, new_price)
                THEN Created(ob, r.ob) = {} /\ Deleted(ob, r.ob) = {}
                ELSE /\ Created(ob, r.ob)
                           \subseteq {<<OrderOf(ob, id).side, value(new_price)>>}
                     /\ Deleted(ob, r.ob)
                           \subseteq {<<OrderOf(ob, id).side, OrderOf(ob, id).price>>}

\* an order rests alone in its level, and a price-changing amend of it
\* succeeds, deletes that level and creates the level at the new price
C25_Witness ==
    \E id \in Active(ob), new_price \in OptPrices, t \in Times :
       \E r \in amend_order(ob, id, new_price, nullopt, t) :
          /\ r.ret = TRUE
          /\ Cardinality(Created(ob, r.ob)) = 1
          /\ Cardinality(Deleted(ob, r.ob)) = 1

\* the level an index entry names exists and holds the entry's list node
LevelFound(b, id) ==
    LET info == b.orders_by_id[id]
    IN /\ MapHas(BookOf(b, info.side), info.price)
       /\ info.list_it \in Range(BookOf(b, info.side)[info.price])

\* C26: remove_order(id) returns true if and only if id is active, and
\* amend_order on an active id returns true if and only if the amend has an
\* effective change: the 'level not found' branches of remove_order and
\* amend_order are unreachable, because in every reachable state a level
\* exists at each indexed order's (side, price).
C26_LevelOfIndexedOrderExists ==
    /\ \A id \in Active(ob) : LevelFound(ob, id)
    /\ \A id \in Ids, t \in Times :
          \A r \in remove_order(ob, id, t) : r.ret <=> id \in Active(ob)
    /\ \A id \in Active(ob), new_price \in OptPrices, new_qty \in OptQuantities,
          t \in Times :
          \A r \in amend_order(ob, id, new_price, new_qty, t) :
             r.ret <=> \/ ~SamePrice(ob, id, new_price)
                       \/ /\ has_value(new_qty)
                          /\ value(new_qty) # OrderOf(ob, id).quantity

\* an amend failed while one id is active and another is not
C26_Witness ==
    /\ call = [op |-> "amend", ret |-> FALSE]
    /\ Active(ob) # {}
    /\ Active(ob) # Ids

\* C27: an id is reusable after its removal: following a successful
\* remove_order(id), add_order with the same id succeeds and creates a fresh
\* order at the tail of its level, whose side, price, quantity, creation_time,
\* last_update_time and last_transaction come from the new call alone.
C27_IdReusableAfterRemove ==
    \A id \in Active(ob), t1 \in Times :
       \A r1 \in remove_order(ob, id, t1) :
          r1.ret = TRUE =>
             \A side \in Sides, price \in Prices, qty \in Quantities, t2 \in Times :
                \A r2 \in add_order(r1.ob, id, side, price, qty, t2) :
                   /\ r2.ret = TRUE
                   /\ has_value(get_order(r2.ob, id))
                   /\ OrderOf(r2.ob, id) =
                         [id |-> id, side |-> side, price |-> price,
                          quantity |-> qty, creation_time |-> t2,
                          last_update_time |-> t2,
                          last_txn |-> Transaction("Add", t2)]
                   /\ orders_at(r2.ob, side, price) =
                         orders_at(r1.ob, side, price)
                            \o <<value(get_order(r2.ob, id))>>
                   /\ Count(r2.ob, orders_on_side(r2.ob, side), id) = 1

\* an id was just removed while another order rests, and adding the removed
\* id again succeeds behind that order
C27_Witness ==
    /\ call = [op |-> "remove", ret |-> TRUE]
    /\ Cardinality(Active(ob)) = 1
    /\ \E id \in Ids \ Active(ob), side \in Sides, price \in Prices, t \in Times :
          \E r \in add_order(ob, id, side, price, MaxQty, t) :
             /\ r.ret = TRUE
             /\ num_orders_at(r.ob, side, price) = 2
             /\ IsLast(r.ob, orders_at(r.ob, side, price), id)

\* ------------------------------------- a caller whose clock never goes back
\* the timestamps of the caller are 0..MaxTime
MaxTime == 2
TimesMono == 0..MaxTime

\* the call op at timestamp t, not smaller than the timestamp of the call
\* before, ends with one of the outcomes
CallAt(op, t, outcomes) ==
    /\ "t" \in DOMAIN call => call.t <= t
    /\ \E r \in outcomes :
          /\ ob' = r.ob
          /\ call' = [op |-> op, ret |-> r.ret, t |-> t]

AddOrderMono ==
    \E id \in Ids, side \in Sides, price \in Prices, qty \in Quantities,
       t \in TimesMono :
       CallAt("add", t, add_order(ob, id, side, price, qty, t))

RemoveOrderMono ==
    \E id \in Ids, t \in TimesMono : CallAt("remove", t, remove_order(ob, id, t))

AmendOrderMono ==
    \E id \in Ids, new_price \in OptPrices, new_qty \in OptQuantities,
       t \in TimesMono :
       CallAt("amend", t, amend_order(ob, id, new_price, new_qty, t))

NextMono == AddOrderMono \/ RemoveOrderMono \/ AmendOrderMono

SpecMono == Init /\ [][NextMono]_vars

\* C28: if every call is given a timestamp not smaller than the timestamp of
\* any earlier call, then in every reachable state each price level's sequence
\* is in non-decreasing last_update_time order, and every active order has
\* creation_time <= last_update_time <= last_transaction.time.
C28_MonotoneClockKeepsLevelsSorted ==
    /\ \A s \in Sides, p \in Prices :
          LET level == orders_at(ob, s, p)
          IN \A i, j \in 1..Len(level) :
                i < j => Deref(ob, level[i]).last_update_time
                            <= Deref(ob, level[j]).last_update_time
    /\ \A id \in Active(ob) :
          /\ OrderOf(ob, id).creation_time <= OrderOf(ob, id).last_update_time
          /\ OrderOf(ob, id).last_update_time <= OrderOf(ob, id).last_txn.time

\* under the monotone clock, a level holds an order created, updated and
\* last amended at three instants, ahead of an order updated later than it
C28_Witness ==
    /\ "t" \in DOMAIN call
    /\ \E s \in Sides, p \in Prices :
          /\ num_orders_at(ob, s, p) = 2
          /\ LET first == Deref(ob, orders_at(ob, s, p)[1])
                 second == Deref(ob, orders_at(ob, s, p)[2])
             IN /\ first.creation_time < first.last_update_time
                /\ first.last_update_time < first.last_txn.time
                /\ first.last_update_time < second.last_update_time

\* last_transaction.time and last_update_time of the order of id are the same
Agree(b, id) == OrderOf(b, id).last_txn.time = OrderOf(b, id).last_update_time

\* C29: for every active order, last_transaction.time differs from
\* last_update_time only if the most recent successful mutation of the order
\* was a quantity-decrease amend: after an add, a price-changing amend or a
\* quantity-increasing amend the two are equal, and failed calls and calls on
\* other ids change neither.
C29_TxnTimeVersusUpdateTime ==
    /\ \A id \in Ids \ Active(ob), side \in Sides, price \in Prices,
          qty \in Quantities, t \in Times :
          \A r \in add_order(ob, id, side, price, qty, t) : Agree(r.ob, id)
    /\ \A id \in Active(ob) :
          /\ \A new_price \in OptPrices, new_qty \in OptQuantities, t \in Times :
                \A r \in amend_order(ob, id, new_price, new_qty, t) :
                   IF r.ret
                   THEN ~IsDecrease(ob, id, new_price, new_qty) => Agree(r.ob, id)
                   ELSE /\ OrderOf(r.ob, id).last_txn = OrderOf(ob, id).last_txn
                        /\ OrderOf(r.ob, id).last_update_time
                              = OrderOf(ob, id).last_update_time
          /\ \A r \in CallsButAmendOrRemoveOf(ob, id) :
                /\ OrderOf(r.ob, id).last_txn = OrderOf(ob, id).last_txn
                /\ OrderOf(r.ob, id).last_update_time
                      = OrderOf(ob, id).last_update_time

\* an amend succeeded and an order never updated since its creation has a
\* last transaction at a later instant
C29_Witness ==
    /\ call = [op |-> "amend", ret |-> TRUE]
    /\ \E id \in Active(ob) :
          /\ OrderOf(ob, id).last_update_time = OrderOf(ob, id).creation_time
          /\ OrderOf(ob, id).last_txn.time > OrderOf(ob, id).last_update_time

\* the ends of calling remove_order once on each id of ids, in every order:
\* whether every call returned true, and the book left
RECURSIVE RemoveEach(_, _)
RemoveEach(b, ids) ==
    IF ids = {} THEN {[ok |-> TRUE, ob |-> b]}
    ELSE UNION {UNION {{[ok |-> r.ret /\ end.ok, ob |-> end.ob] :
                          end \in RemoveEach(r.ob, ids \ {id})} :
                       r \in remove_order(b, id, t)} :
                  id \in ids, t \in Times}

\* C30: from any reachable state, calling remove_order once on each active
\* id, in any order, succeeds every time and ends in the empty book:
\* num_price_levels is 0 on both sides, top_price and bottom_price are empty,
\* get_order is empty for every id, and is_crossed() is false.
C30_RemoveAllEmptiesBook ==
    \A end \in RemoveEach(ob, Active(ob)) :
       /\ end.ok
       /\ \A s \in Sides :
             /\ num_price_levels(end.ob, s) = 0
             /\ top_price(end.ob, s) = nullopt
             /\ bottom_price(end.ob, s) = nullopt
       /\ \A id \in Ids3 : get_order(end.ob, id) = nullopt
       /\ ~is_crossed(end.ob)
       /\ end.ob = EmptyBook

\* three orders are active in a crossed book, and removing them in some order
\* ends in the empty book
C30_Witness ==
    /\ Active(ob) = Ids3
    /\ is_crossed(ob)
    /\ \E end \in RemoveEach(ob, Active(ob)) : end.ok /\ end.ob = EmptyBook

\* ------------------------------------------------------------ quantity 0

\* the outcomes of every call on b that is not a remove_order of id
CallsButRemoveOf(b, id) ==
    UNION ( {add_order(b, any, side, price, qty, t) :
                any \in Ids, side \in Sides, price \in Prices,
                qty \in Quantities, t \in Times}
            \cup {remove_order(b, other, t) : other \in Ids \ {id}, t \in Times}
            \cup {amend_order(b, any, new_price, new_qty, t) :
                     any \in Ids, new_price \in OptPrices,
                     new_qty \in OptQuantities, t \in Times} )

\* id is active, its price is a level of its side, and num_orders_at and
\* orders_at of that level count and hold it
Alive(b, id) ==
    /\ id \in Active(b)
    /\ has_value(get_order(b, id))
    /\ LET o == OrderOf(b, id)
       IN /\ \E i \in 1..Len(price_levels(b, o.side)) :
                price_levels(b, o.side)[i] = o.price
          /\ num_orders_at(b, o.side, o.price) >= 1
          /\ Count(b, orders_at(b, o.side, o.price), id) = 1

\* C31: quantity 0 is an ordinary value.  add_order with quantity 0 of an id
\* that is not active succeeds, and amend_order of an order of positive
\* quantity to quantity 0 at its price returns true and keeps every level as
\* it was and the order's last_update_time; in both cases the order is
\* active with quantity 0, is counted by num_orders_at and its level exists.
\* An active order of quantity 0 stays so through every call that is not a
\* remove_order of its id, and remove_order of its id takes it out.
C31_ZeroQuantityIsOrdinary ==
    /\ \A id \in Ids \ Active(ob), side \in Sides, price \in Prices, t \in Times :
          \A r \in add_order(ob, id, side, price, 0, t) :
             /\ r.ret = TRUE
             /\ Alive(r.ob, id)
             /\ OrderOf(r.ob, id).quantity = 0
             /\ num_orders_at(r.ob, side, price) = num_orders_at(ob, side, price) + 1
    /\ \A id \in Active(ob), new_price \in OptPrices, t \in Times :
          (SamePrice(ob, id, new_price) /\ OrderOf(ob, id).quantity > 0)
             => \A r \in amend_order(ob, id, new_price, Some(0), t) :
                   /\ r.ret = TRUE
                   /\ Alive(r.ob, id)
                   /\ OrderOf(r.ob, id).quantity = 0
                   /\ OrderOf(r.ob, id).last_update_time = OrderOf(ob, id).last_update_time
                   /\ \A s \in Sides :
                         /\ price_levels(r.ob, s) = price_levels(ob, s)
                         /\ \A p \in Prices :
                               /\ orders_at(r.ob, s, p) = orders_at(ob, s, p)
                               /\ num_orders_at(r.ob, s, p) = num_orders_at(ob, s, p)
    /\ \A id \in Active(ob) :
          OrderOf(ob, id).quantity = 0
             => /\ Alive(ob, id)
                /\ \A r \in CallsButRemoveOf(ob, id) : Alive(r.ob, id)
                /\ \A t \in Times : \A r \in remove_order(ob, id, t) :
                      r.ret = TRUE /\ Gone(r.ob, id)

\* an amend succeeded and left a level of two orders of quantity 0: at its
\* head an order reduced to 0 (its last transaction is an amend at another
\* time than its last update), behind it an order added with quantity 0 and
\* never amended
C31_Witness ==
    /\ call = [op |-> "amend", ret |-> TRUE]
    /\ \E s \in Sides, p \in Prices :
          /\ num_orders_at(ob, s, p) = 2
          /\ price_levels(ob, s) = <<p>>
          /\ LET head == Deref(ob, orders_at(ob, s, p)[1])
                 back == Deref(ob, orders_at(ob, s, p)[2])
             IN /\ head.quantity = 0
                /\ head.last_txn.type = "Amend"
                /\ head.last_txn.time # head.last_update_time
                /\ back.quantity = 0
                /\ back.last_txn.type = "Add"
====
